---- MODULE Spec2Model ----
(***************************************************************************)
(* Model of the buy-back strategy engine: modules/benchmarks.py            *)
(* (decision benchmark) and modules/strategies.py (execute_strategy_1,     *)
(* execute_strategy_2, execute_strategy_3, execute_all_strategies).        *)
(*                                                                         *)
(* Amounts are exact rationals <<n, d>> (d > 0, lowest terms): the model   *)
(* follows the real-number reading of the float code.  Days and rows are   *)
(* 0-based as in the source.                                               *)
(***************************************************************************)
EXTENDS Integers, Sequences, FiniteSets, TLC

(***************************************************************************)
(* Bounds of the model.                                                    *)
(***************************************************************************)
\* The exhaustive family: every batch of NumSims rows over 1..MaxDays days
\* that holds at most MaxCells prices.
MaxDays == 3
NumSims == 2
MaxCells == 6
\* Durations (min, target, max) of the exhaustive family range over 1..MaxDur,
\* in any order, so max_duration may exceed the day count.
MaxDur == 3
\* The long family: single-row batches over LongDays days (beyond the ramp).
LongDays == 12
\* The path generator: the process-wide random state takes RngStates values,
\* and a process makes up to MaxCalls calls of simulate_gbm_paths.
RngStates == 5
MaxCalls == 3

(***************************************************************************)
(* Rational arithmetic.                                                    *)
(***************************************************************************)
Abs(x) == IF x < 0 THEN -x ELSE x

RECURSIVE GCD(_, _)
GCD(a, b) == IF b = 0 THEN a ELSE GCD(b, a % b)

Norm(n, d) == LET g == GCD(Abs(n), d) IN <<n \div g, d \div g>>

Rat(i) == <<i, 1>>
Zero == <<0, 1>>

\* sums and comparisons go through the least common denominator, products are
\* reduced crosswise, so that no intermediate value outgrows the result
RAdd(a, b) ==
    LET g == GCD(a[2], b[2])
    IN  Norm(a[1] * (b[2] \div g) + b[1] * (a[2] \div g), (a[2] \div g) * b[2])
RNeg(a) == <<-a[1], a[2]>>
RSub(a, b) == RAdd(a, RNeg(b))
RMul(a, b) ==
    LET g1 == GCD(Abs(a[1]), b[2])
        g2 == GCD(Abs(b[1]), a[2])
    IN  <<(a[1] \div g1) * (b[1] \div g2), (a[2] \div g2) * (b[2] \div g1)>>
\* a / b for b > 0
RDiv(a, b) == RMul(a, <<b[2], b[1]>>)
RLt(a, b) ==
    LET g == GCD(a[2], b[2])
    IN  a[1] * (b[2] \div g) < b[1] * (a[2] \div g)
RLe(a, b) ==
    LET g == GCD(a[2], b[2])
    IN  a[1] * (b[2] \div g) <= b[1] * (a[2] \div g)
RMin(a, b) == IF RLe(a, b) THEN a ELSE b
RAbs(a) == <<Abs(a[1]), a[2]>>

Min(a, b) == IF a <= b THEN a ELSE b
Max(a, b) == IF a >= b THEN a ELSE b

\* np.sum of a row over the day indices lo..hi-1 (the slice [lo:hi])
RECURSIVE SumTo(_, _)
SumTo(row, hi) == IF hi <= 0 THEN Zero ELSE RAdd(SumTo(row, hi - 1), row[hi - 1])

(***************************************************************************)
(* benchmarks.py                                                           *)
(***************************************************************************)
NumRows(p) == Cardinality(DOMAIN p)
NumCols(p) == Cardinality(DOMAIN p[0])

\* sum of prices[:, :day+1]
RECURSIVE SumBlock(_, _, _)
SumBlock(p, nsim, day) ==
    IF nsim = 0 THEN Zero
    ELSE RAdd(SumBlock(p, nsim - 1, day), SumTo(p[nsim - 1], day + 1))

\* fault variant: the mean of the whole batch on every day
MeanBlockWholeGrid(p, day) ==
    RDiv(SumBlock(p, NumRows(p), NumCols(p) - 1), Rat(NumRows(p) * NumCols(p)))

\* np.mean(prices[:, :day+1])
MeanBlock(p, day) == RDiv(SumBlock(p, NumRows(p), day), Rat(NumRows(p) * (day + 1)))

\* fault variant: the discount read as a percentage
DiscountFactorPercent(discount_bps) == RSub(Rat(1), RDiv(Rat(discount_bps), Rat(100)))

\* discount_factor = 1 - discount_bps / 10000
DiscountFactor(discount_bps) == RSub(Rat(1), RDiv(Rat(discount_bps), Rat(10000)))

\* calculate_arithmetic_mean_benchmark(prices, discount_bps)
calculate_arithmetic_mean_benchmark(p, discount_bps) ==
    [d \in 0..(NumCols(p) - 1) |->
        IF discount_bps > 0
        THEN RMul(MeanBlock(p, d), DiscountFactor(discount_bps))
        ELSE MeanBlock(p, d)]

(***************************************************************************)
(* strategies.py: literals of the trading rules.                           *)
(***************************************************************************)
\* "if remaining_usd <= 0.01"
StopThreshold == <<1, 100>>
\* "day < min(10, min_duration)"
RampCap == 10
\* "first_day_value * 5", "remaining_usd < 5 * first_day_value"
SpeedUpFactor == 5
\* "days_left > 5"
ThrottleDaysLeft == 5
\* "0.1 * first_day_value"
ThrottleFraction == <<1, 10>>

(***************************************************************************)
(* Inputs.                                                                 *)
(***************************************************************************)
\* prices of the exhaustive family, and of the long family
PriceLevels == {99, 100}
LongLevels == {1, 2}
\* total_usd: at, just above and far above the stop threshold
Budgets == {<<1, 100>>, <<1, 50>>, <<1000, 1>>}
LongBudgets == {<<1, 50>>, <<1000, 1>>}
Discounts == {0, 100}
\* (min, target, max) of the long family are drawn from these, ordered
LongDurations == {2, 7, 11, LongDays}

Strategies == {"strategy_1", "strategy_2", "strategy_3"}

Grid(n, d, v) == [s \in 0..(n - 1) |-> [t \in 0..(d - 1) |-> v]]

\* every batch of n rows and d days over the price levels
Batches(n, d, levels) == [0..(n - 1) -> [0..(d - 1) -> {Rat(x) : x \in levels}]]

\* a row that moves once, from level a to level b, at day k
StepRow(d, a, b, k) == [t \in 0..(d - 1) |-> IF t < k THEN Rat(a) ELSE Rat(b)]

\* single-row batches of d days: constant, one move down, one move up
StepBatches(d, levels) ==
    {[s \in {0} |-> StepRow(d, a, b, k)] : a \in levels, b \in levels, k \in 0..d}

VARIABLES
    prices, total_usd, target_duration, min_duration, max_duration,
    benchmark_discount_bps,
    pc, sim, day, remaining_usd, benchmark, results, rule,
    metrics, rng, calls

\* the scalar arguments of the strategies
parameters == <<total_usd, target_duration, min_duration, max_duration,
                benchmark_discount_bps>>
inputs == <<prices, parameters>>
vars == <<prices, total_usd, target_duration, min_duration, max_duration,
          benchmark_discount_bps, pc, sim, day, remaining_usd, benchmark,
          results, rule, metrics, rng, calls>>

\* what the strategy engine never touches: the metrics of the aggregator, the
\* process-wide random state and the calls made to the path generator
outside == <<metrics, rng, calls>>

num_simulations == NumRows(prices)
num_days == NumCols(prices)

\* lines 15-17 and 48-51: the np.zeros result arrays
ZeroResult(n, d) ==
    [usd_executed |-> Grid(n, d, Zero),
     shares_acquired |-> Grid(n, d, Zero),
     cumulative_shares |-> Grid(n, d, Zero),
     actual_end_days |-> [s \in 0..(n - 1) |-> 0]]

\* nothing executed yet
Fresh ==
    /\ sim = 0
    /\ day = 0
    /\ remaining_usd = total_usd
    /\ results = [k \in Strategies |-> ZeroResult(num_simulations, num_days)]
    /\ rule = [k \in Strategies |-> Grid(num_simulations, num_days, "none")]
    /\ metrics = <<>>
    /\ rng = 0
    /\ calls = <<>>

\* the state at the call of execute_all_strategies
Start ==
    /\ pc = "strategy_1"
    /\ benchmark = [d \in 0..(num_days - 1) |-> Zero]
    /\ Fresh

InitSmall ==
    /\ \E d \in 1..MaxDays :
            /\ NumSims * d <= MaxCells
            /\ prices \in Batches(NumSims, d, PriceLevels)
    /\ total_usd \in Budgets
    /\ target_duration \in 1..MaxDur
    /\ min_duration \in 1..MaxDur
    /\ max_duration \in 1..MaxDur
    /\ benchmark_discount_bps \in Discounts
    /\ Start

InitLong ==
    /\ prices \in StepBatches(LongDays, LongLevels)
    /\ total_usd \in LongBudgets
    /\ min_duration \in LongDurations
    /\ target_duration \in {t \in LongDurations : min_duration <= t}
    /\ max_duration \in {m \in LongDurations : target_duration <= m}
    /\ benchmark_discount_bps \in Discounts
    /\ Start

Init == InitSmall \/ InitLong

(***************************************************************************)
(* execute_strategy_1                                                      *)
(***************************************************************************)
\* fault variant: the budget split over one day too many
DailyUsdOffByOne(total, target) == RDiv(total, Rat(target + 1))

\* line 12: daily_usd = total_usd / target_duration
DailyUsd(total, target) == RDiv(total, Rat(target))

\* fault variant: the schedule cut one day short
Strategy1EndDayShort(target, ndays) == Min(target, ndays) - 1

\* lines 21 and 29: min(target_duration, num_days)
Strategy1EndDay(target, ndays) == Min(target, ndays)

\* fault variant: the price read is overwritten in the batch
BatchAfterReadOverwritten(p, s, d) == [p EXCEPT ![s][d] = Rat(1)]

\* lines 23 and 69: prices[sim, day] is copied into a local; nothing is stored
\* into the batch
BatchAfterRead(p, s, d) == p

\* fault variant: every row reads the prices of row 0
PriceAtFirstRow(p, s, d) == p[0][d]

\* lines 23, 69 and 103: prices[sim, day]
PriceAt(p, s, d) == p[s][d]

\* lines 24-27 and 105-108: the running total of shares
CumulativeShares(cum_row, d, shares) ==
    IF d = 0 THEN shares ELSE RAdd(cum_row[d - 1], shares)

\* lines 22-27 and 102-108: write one day's trade into the result arrays
Record(res, s, d, amount, price) ==
    LET shares == RDiv(amount, price)
    IN  [res EXCEPT !.usd_executed[s][d] = amount,
                    !.shares_acquired[s][d] = shares,
                    !.cumulative_shares[s][d] =
                        CumulativeShares(res.cumulative_shares[s], d, shares)]

\* lines 20-27: one iteration of the day loop of one row
Strategy1Day ==
    /\ pc = "strategy_1"
    /\ sim < num_simulations
    /\ day < Strategy1EndDay(target_duration, num_days)
    /\ results' = [results EXCEPT !["strategy_1"] =
            Record(@, sim, day, DailyUsd(total_usd, target_duration),
                   PriceAt(prices, sim, day))]
    /\ rule' = [rule EXCEPT !["strategy_1"][sim][day] = "fixed"]
    /\ IF day + 1 < Strategy1EndDay(target_duration, num_days)
       THEN day' = day + 1 /\ sim' = sim
       ELSE day' = 0 /\ sim' = sim + 1
    /\ prices' = BatchAfterRead(prices, sim, day)
    /\ UNCHANGED <<parameters, outside, pc, remaining_usd, benchmark>>

\* lines 29-30, 153-161 and the entry of execute_strategy_2 (lines 44-45, 57):
\* strategy 1 returns its one end day, which the caller spreads over the rows;
\* strategy 2 is called without a benchmark and computes the undiscounted one
Strategy1Return ==
    /\ pc = "strategy_1"
    /\ sim = num_simulations
    /\ results' = [results EXCEPT !["strategy_1"].actual_end_days =
            [s \in 0..(num_simulations - 1) |->
                Strategy1EndDay(target_duration, num_days)]]
    /\ pc' = "strategy_2"
    /\ benchmark' = calculate_arithmetic_mean_benchmark(prices, 0)
    /\ sim' = 0
    /\ day' = 0
    /\ remaining_usd' = total_usd
    /\ UNCHANGED <<inputs, outside, rule>>

(***************************************************************************)
(* execute_strategy_2 (also the body of execute_strategy_3)                *)
(***************************************************************************)
\* line 60: range(min(num_days, max_duration))
LoopDays(ndays, maxd) == Min(ndays, maxd)

\* fault variant: every day compared with the last value of the series
CurrentBenchmarkLast(bench, d) == bench[Cardinality(DOMAIN bench) - 1]

\* line 70: benchmark[day] if day < len(benchmark) else benchmark[-1]
CurrentBenchmark(bench, d) ==
    LET n == Cardinality(DOMAIN bench)
    IN  IF d < n THEN bench[d] ELSE bench[n - 1]

\* line 73: the ramp phase
InRamp(d, mind) == d < Min(RampCap, mind)

\* fault variant: a price equal to the benchmark counted as below it
FavorableOrEqual(price, bench) == RLe(price, bench)

\* line 80: price below benchmark
Favorable(price, bench) == RLt(price, bench)

\* line 66: the last permitted day
ForcedFinish(d, maxd) == d = maxd - 1

\* fault variant: pacing that aims one day before min_duration
PaceTradeEarly(rem, mind, d) == RDiv(rem, Rat(Max(1, mind - d - 1)))

\* lines 87-88: spread what is left over the days up to min_duration
PaceTrade(rem, mind, d) == RDiv(rem, Rat(Max(1, mind - d)))

\* fault variant: the speed-up limited to one daily rate
SpeedUpTradeSingle(rem, first_day_value) == RMin(rem, first_day_value)

\* line 84: min(remaining_usd, first_day_value * 5)
SpeedUpTrade(rem, first_day_value) ==
    RMin(rem, RMul(first_day_value, Rat(SpeedUpFactor)))

\* fault variant: the ramp tested before the forced finish
DailyTradeRampFirst(d, rem, price, bench, total, target, mind, maxd) ==
    LET first_day_value == RDiv(total, Rat(target))
        days_left == maxd - d
        base_daily_trade == RDiv(rem, Rat(Max(1, maxd - d)))
    IN  IF InRamp(d, mind)
            THEN [amount |-> first_day_value, rule |-> "ramp"]
        ELSE IF ForcedFinish(d, maxd)
            THEN [amount |-> rem, rule |-> "forced"]
        ELSE IF Favorable(price, bench)
            THEN IF d >= mind
                 THEN [amount |-> SpeedUpTrade(rem, first_day_value),
                       rule |-> "accelerate"]
                 ELSE [amount |-> PaceTrade(rem, mind, d), rule |-> "pace"]
        ELSE IF RLt(rem, RMul(Rat(SpeedUpFactor), first_day_value))
                    /\ days_left > ThrottleDaysLeft
            THEN [amount |-> RMin(base_daily_trade,
                                  RMul(ThrottleFraction, first_day_value)),
                  rule |-> "throttle"]
        ELSE [amount |-> base_daily_trade, rule |-> "decelerate"]

\* lines 66-98: the trade chosen for a day, and the rule that chose it
DailyTrade(d, rem, price, bench, total, target, mind, maxd) ==
    LET first_day_value == RDiv(total, Rat(target))
        days_left == maxd - d
        base_daily_trade == RDiv(rem, Rat(Max(1, maxd - d)))
    IN  IF ForcedFinish(d, maxd)
            THEN [amount |-> rem, rule |-> "forced"]
        ELSE IF InRamp(d, mind)
            THEN [amount |-> first_day_value, rule |-> "ramp"]
        ELSE IF Favorable(price, bench)
            THEN IF d >= mind
                 THEN [amount |-> SpeedUpTrade(rem, first_day_value),
                       rule |-> "accelerate"]
                 ELSE [amount |-> PaceTrade(rem, mind, d), rule |-> "pace"]
        ELSE IF RLt(rem, RMul(Rat(SpeedUpFactor), first_day_value))
                    /\ days_left > ThrottleDaysLeft
            THEN [amount |-> RMin(base_daily_trade,
                                  RMul(ThrottleFraction, first_day_value)),
                  rule |-> "throttle"]
        ELSE [amount |-> base_daily_trade, rule |-> "decelerate"]

\* line 61: the stop condition
Stopped(rem) == RLe(rem, StopThreshold)

\* fault variant: the stop day reported one day early
EndDayOneEarly(end, maxd, ndays) == IF end = 0 THEN Min(maxd, ndays) ELSE end - 1

\* fault variant: the default end day not limited to the day count
EndDayUnclamped(end, maxd, ndays) == IF end = 0 THEN maxd ELSE end

\* lines 113-115: an end day still 0 after the loop becomes min(max_duration, num_days)
EndDayOrDefault(end, maxd, ndays) == IF end = 0 THEN Min(maxd, ndays) ELSE end

\* fault variant: the remainder of one row carried into the next
NextRowBudgetCarried(total, rem) == rem

\* line 57: the next row starts with the whole budget
NextRowBudget(total, rem) == total

\* fault variant: strategy 3 run on the undiscounted benchmark
Strategy3DiscountDropped(discount_bps) == 0

\* the discount execute_strategy_3 hands to the benchmark (line 130)
Strategy3Discount(discount_bps) == discount_bps

\* fault variant: the trade not taken off the remaining budget
RemainingAfterUnchanged(rem, trade) == rem

\* line 110: remaining_usd -= daily_trade
RemainingAfter(rem, trade) == RSub(rem, trade)

\* lines 60-115: the day loop of row s from day d with rem left, as a function:
\* the result arrays and what is left when the row ends
RECURSIVE DayLoop(_, _, _, _, _, _, _)
DayLoop(res, p, s, d, rem, bench, cfg) ==
    IF d >= LoopDays(NumCols(p), cfg.max_duration)
    THEN [res |-> [res EXCEPT !.actual_end_days[s] =
                      EndDayOrDefault(@, cfg.max_duration, NumCols(p))],
          rem |-> rem]
    ELSE IF Stopped(rem)
    THEN [res |-> [res EXCEPT !.actual_end_days[s] =
                      EndDayOrDefault(d, cfg.max_duration, NumCols(p))],
          rem |-> rem]
    ELSE LET t == DailyTrade(d, rem, PriceAt(p, s, d), CurrentBenchmark(bench, d),
                             cfg.total_usd, cfg.target_duration,
                             cfg.min_duration, cfg.max_duration)
             daily_trade == RMin(t.amount, rem)
         IN  DayLoop(Record(res, s, d, daily_trade, PriceAt(p, s, d)), p, s, d + 1,
                     RemainingAfter(rem, daily_trade), bench, cfg)

\* lines 56-115: the row loop from row s on
RECURSIVE SimLoop(_, _, _, _, _, _)
SimLoop(res, p, s, rem, bench, cfg) ==
    IF s >= NumRows(p) THEN res
    ELSE LET row == DayLoop(res, p, s, 0, rem, bench, cfg)
         IN  SimLoop(row.res, p, s + 1, NextRowBudget(cfg.total_usd, row.rem),
                     bench, cfg)

\* execute_strategy_2(prices, ..., benchmark=bench) as a function of its arguments
execute_strategy_2(p, cfg, bench) ==
    SimLoop(ZeroResult(NumRows(p), NumCols(p)), p, 0, cfg.total_usd, bench, cfg)

\* execute_strategy_3(prices, ..., benchmark_discount_bps) as a function
execute_strategy_3(p, cfg, discount_bps) ==
    execute_strategy_2(p, cfg,
        calculate_arithmetic_mean_benchmark(p, Strategy3Discount(discount_bps)))

\* lines 20-27: the loops of execute_strategy_1 from row s, day d on
RECURSIVE Strategy1Loop(_, _, _, _, _)
Strategy1Loop(res, p, s, d, cfg) ==
    IF s >= NumRows(p) THEN res
    ELSE IF d >= Strategy1EndDay(cfg.target_duration, NumCols(p))
    THEN Strategy1Loop(res, p, s + 1, 0, cfg)
    ELSE Strategy1Loop(
            Record(res, s, d, DailyUsd(cfg.total_usd, cfg.target_duration),
                   PriceAt(p, s, d)),
            p, s, d + 1, cfg)

\* execute_strategy_1 as a function, its end day spread over the rows as
\* execute_all_strategies does (line 160)
execute_strategy_1(p, cfg) ==
    [Strategy1Loop(ZeroResult(NumRows(p), NumCols(p)), p, 0, 0, cfg)
        EXCEPT !.actual_end_days =
            [s \in 0..(NumRows(p) - 1) |->
                Strategy1EndDay(cfg.target_duration, NumCols(p))]]

\* the durations and budget of the run
Config ==
    [total_usd |-> total_usd, target_duration |-> target_duration,
     min_duration |-> min_duration, max_duration |-> max_duration]

Adaptive == pc \in {"strategy_2", "strategy_3"}

\* lines 61-63 and 113-115: the row stops before trading on this day
StopRow ==
    /\ Adaptive
    /\ sim < num_simulations
    /\ day < LoopDays(num_days, max_duration)
    /\ Stopped(remaining_usd)
    /\ results' = [results EXCEPT ![pc].actual_end_days[sim] =
            EndDayOrDefault(day, max_duration, num_days)]
    /\ sim' = sim + 1
    /\ day' = 0
    /\ remaining_usd' = NextRowBudget(total_usd, remaining_usd)
    /\ UNCHANGED <<inputs, outside, pc, benchmark, rule>>

\* lines 65-110: one trading day of one row
TradeDay ==
    /\ Adaptive
    /\ sim < num_simulations
    /\ day < LoopDays(num_days, max_duration)
    /\ ~Stopped(remaining_usd)
    /\ LET t == DailyTrade(day, remaining_usd, PriceAt(prices, sim, day),
                           CurrentBenchmark(benchmark, day), total_usd,
                           target_duration, min_duration, max_duration)
           daily_trade == RMin(t.amount, remaining_usd)
       IN  /\ results' = [results EXCEPT ![pc] =
                Record(@, sim, day, daily_trade, PriceAt(prices, sim, day))]
           /\ rule' = [rule EXCEPT ![pc][sim][day] = t.rule]
           /\ remaining_usd' = RemainingAfter(remaining_usd, daily_trade)
    /\ day' = day + 1
    /\ prices' = BatchAfterRead(prices, sim, day)
    /\ UNCHANGED <<parameters, outside, pc, sim, benchmark>>

\* lines 60 and 113-115: the day loop ran out
LoopExhausted ==
    /\ Adaptive
    /\ sim < num_simulations
    /\ day = LoopDays(num_days, max_duration)
    /\ results' = [results EXCEPT ![pc].actual_end_days[sim] =
            EndDayOrDefault(@, max_duration, num_days)]
    /\ sim' = sim + 1
    /\ day' = 0
    /\ remaining_usd' = NextRowBudget(total_usd, remaining_usd)
    /\ UNCHANGED <<inputs, outside, pc, benchmark, rule>>

\* lines 117, 164-172 and the entry of execute_strategy_3 (lines 130-139):
\* strategy 3 computes the discounted benchmark and runs strategy 2 on it
Strategy2Return ==
    /\ pc = "strategy_2"
    /\ sim = num_simulations
    /\ pc' = "strategy_3"
    /\ benchmark' = calculate_arithmetic_mean_benchmark(
                        prices, Strategy3Discount(benchmark_discount_bps))
    /\ sim' = 0
    /\ day' = 0
    /\ remaining_usd' = total_usd
    /\ UNCHANGED <<inputs, outside, results, rule>>

\* lines 117 and 175-186: execute_all_strategies returns
Strategy3Return ==
    /\ pc = "strategy_3"
    /\ sim = num_simulations
    /\ pc' = "done"
    /\ UNCHANGED <<inputs, outside, sim, day, remaining_usd, benchmark, results, rule>>

Next ==
    \/ Strategy1Day
    \/ Strategy1Return
    \/ StopRow
    \/ TradeDay
    \/ LoopExhausted
    \/ Strategy2Return
    \/ Strategy3Return

Spec == Init /\ [][Next]_vars

(***************************************************************************)
(* execute_strategy_2 called by itself, with the benchmark of the caller.  *)
(***************************************************************************)
\* the series a caller may pass for a grid of d days: one value per day, or
\* fewer (line 70 then repeats the last one)
PassedSeries(d) ==
    UNION {[0..(l - 1) -> {Rat(x) : x \in PriceLevels}] : l \in 1..d}

\* lines 33-57: the call with benchmark given
InitDirectSmall ==
    /\ \E d \in 1..MaxDays :
            /\ prices \in Batches(1, d, PriceLevels)
            /\ benchmark \in PassedSeries(d)
    /\ total_usd \in Budgets
    /\ target_duration \in 1..MaxDur
    /\ min_duration \in 1..MaxDur
    /\ max_duration \in 1..MaxDur
    /\ benchmark_discount_bps = 0
    /\ pc = "strategy_2"
    /\ Fresh

\* lines 33-57: the call with benchmark=None (lines 44-45 compute it)
InitDirectLong ==
    /\ prices \in StepBatches(LongDays, LongLevels)
    /\ benchmark = calculate_arithmetic_mean_benchmark(prices, 0)
    /\ total_usd \in LongBudgets
    /\ min_duration \in LongDurations
    /\ target_duration \in {t \in LongDurations : min_duration <= t}
    /\ max_duration \in {m \in LongDurations : target_duration <= m}
    /\ benchmark_discount_bps = 0
    /\ pc = "strategy_2"
    /\ Fresh

InitDirect == InitDirectSmall \/ InitDirectLong

\* line 117: execute_strategy_2 returns to its caller
AdaptiveReturn ==
    /\ pc = "strategy_2"
    /\ sim = num_simulations
    /\ pc' = "done"
    /\ UNCHANGED <<inputs, outside, sim, day, remaining_usd, benchmark, results, rule>>

NextDirect ==
    \/ StopRow
    \/ TradeDay
    \/ LoopExhausted
    \/ AdaptiveReturn

SpecDirect == InitDirect /\ [][NextDirect]_vars

(***************************************************************************)
(* metrics.py                                                              *)
(***************************************************************************)
\* what numpy returns for 0/0 (the mean of an empty slice) and for x/0, x > 0
NaN == <<0, 0>>
PlusInf == <<1, 0>>

\* fault variant: the whole row summed (the branch taken without end days)
SliceEndWholeRow(end_day, ndays) == ndays

\* lines 14-16: the slice [:end_day]
SliceEnd(end_day, ndays) == end_day

\* calculate_vwap(usd_executed, shares_acquired, actual_end_days)
calculate_vwap(usd, shares, ends) ==
    [s \in DOMAIN usd |->
        LET end_day == SliceEnd(ends[s], Cardinality(DOMAIN usd[s]))
            spent == SumTo(usd[s], end_day)
            total_shares == SumTo(shares[s], end_day)
        IN  IF RLt(Zero, total_shares) THEN RDiv(spent, total_shares) ELSE Zero]

\* fault variant: the first price taken for the mean
MeanSliceFirstDay(row, end_day) == row[0]

\* line 40: np.mean(prices[sim, :end_day])
MeanSlice(row, end_day) ==
    IF end_day = 0 THEN NaN ELSE RDiv(SumTo(row, end_day), Rat(end_day))

\* calculate_benchmark_price(prices, actual_end_days, discount_bps)
calculate_benchmark_price(p, ends, discount_bps) ==
    [s \in DOMAIN p |->
        LET mean == MeanSlice(p[s], ends[s])
        IN  IF discount_bps > 0 /\ mean # NaN
            THEN RMul(mean, DiscountFactor(discount_bps))
            ELSE mean]

\* fault variant: the sign left as computed
SignKept(x) == x

\* line 59: return -performance_bps
SignFlipped(x) == RNeg(x)

\* lines 58-59 for one row
PerformanceBps(vwap, bench) ==
    IF bench = NaN THEN NaN
    ELSE IF bench = Zero
    THEN (IF vwap = Zero THEN NaN ELSE SignFlipped(PlusInf))
    ELSE SignFlipped(RMul(RDiv(RSub(vwap, bench), bench), Rat(10000)))

\* calculate_execution_performance_bps(vwap, benchmark_prices)
calculate_execution_performance_bps(vwap, bench) ==
    [s \in DOMAIN vwap |-> PerformanceBps(vwap[s], bench[s])]

\* fault variant: the configured discount used for every strategy
EvaluationDiscountForAll(k, discount_bps) == discount_bps

\* lines 93-106: the discount of the evaluation benchmark of entry k
EvaluationDiscount(k, discount_bps) == IF k = "strategy_3" THEN discount_bps ELSE 0

\* lines 84-120: the entry of one strategy (the summary statistics of line 112
\* are a function of performance_bps alone and are not carried)
MetricsEntry(k, res, p, discount_bps) ==
    LET vwap == calculate_vwap(res.usd_executed, res.shares_acquired,
                               res.actual_end_days)
        benchmark_prices == calculate_benchmark_price(
                                p, res.actual_end_days,
                                EvaluationDiscount(k, discount_bps))
    IN  [vwap |-> vwap,
         benchmark_prices |-> benchmark_prices,
         performance_bps |-> calculate_execution_performance_bps(
                                 vwap, benchmark_prices),
         actual_end_days |-> res.actual_end_days]

\* calculate_all_metrics(strategy_results, prices, benchmark_discount_bps)
CalculateAllMetrics ==
    /\ pc = "done"
    /\ metrics' = [k \in Strategies |->
                      MetricsEntry(k, results[k], prices, benchmark_discount_bps)]
    /\ pc' = "reported"
    /\ UNCHANGED <<inputs, sim, day, remaining_usd, benchmark, results, rule,
                   rng, calls>>

\* usd of one day in a hand-made execution record
AmountLevels == {0, 1}

\* an execution record as the callers of metrics.py build it: usd per day,
\* shares = usd / price, their running total, and the end days
ExecutionRecord(p, amounts, ends) ==
    LET shares == [s \in DOMAIN p |->
                      [t \in DOMAIN p[s] |-> RDiv(amounts[s][t], p[s][t])]]
    IN  [usd_executed |-> amounts,
         shares_acquired |-> shares,
         cumulative_shares |->
            [s \in DOMAIN p |-> [t \in DOMAIN p[s] |-> SumTo(shares[s], t + 1)]],
         actual_end_days |-> ends]

\* calculate_all_metrics called on any record of the batch's shape, the same
\* one under each of the three names
InitMetrics ==
    /\ \E d \in 1..MaxDays :
            /\ NumSims * d <= MaxCells
            /\ prices \in Batches(NumSims, d, PriceLevels)
            /\ \E amounts \in [0..(NumSims - 1) ->
                                [0..(d - 1) -> {Rat(x) : x \in AmountLevels}]],
                  ends \in [0..(NumSims - 1) -> 0..d] :
                    results = [k \in Strategies |->
                                  ExecutionRecord(prices, amounts, ends)]
    /\ benchmark_discount_bps \in Discounts
    /\ total_usd = Zero
    /\ target_duration = 1
    /\ min_duration = 1
    /\ max_duration = 1
    /\ pc = "done"
    /\ sim = 0
    /\ day = 0
    /\ remaining_usd = Zero
    /\ benchmark = [d \in 0..(num_days - 1) |-> Zero]
    /\ rule = [k \in Strategies |-> Grid(num_simulations, num_days, "none")]
    /\ metrics = <<>>
    /\ rng = 0
    /\ calls = <<>>

NextMetrics == CalculateAllMetrics

SpecMetrics == InitMetrics /\ [][NextMetrics]_vars

(***************************************************************************)
(* gbm.py                                                                  *)
(***************************************************************************)
\* random_seed=None
NoSeed == -1
\* dt = 1 / 252
TradingDays == 252

Seeds == {NoSeed, 0, 1}
StartPrices == {1, 100}
Drifts == {2, 1262}
Volatilities == {20}
\* the standard-normal draws take the values k * sqrt(252) / 4 for these k (about
\* -3.97, 0 and 3.97), the values at which sqrt(dt) * Z is the rational k / 4
ShockSteps == {-1, 0, 1}

\* fault variant: the seed never applied
StateSeedIgnored(state, random_seed) == state

\* lines 12-13: np.random.seed(random_seed) sets the process-wide state
StateAfterSeed(state, random_seed) ==
    IF random_seed = NoSeed THEN state ELSE random_seed % RngStates

\* the process-wide state after n draws
StateAfterDraws(state, n) == (state + n) % RngStates

\* the i-th draw made from a state, as the k of ShockSteps
ShockOf(state, i) == (((state + i) % RngStates) % Cardinality(ShockSteps)) - 1

\* line 32: (mu - 0.5 * sigma**2) * dt + sigma * np.sqrt(dt) * Z
Exponent(drift_pct, volatility_pct, k) ==
    LET mu == RDiv(Rat(drift_pct), Rat(100))
        sigma == RDiv(Rat(volatility_pct), Rat(100))
        dt == <<1, TradingDays>>
    IN  RAdd(RMul(RSub(mu, RMul(<<1, 2>>, RMul(sigma, sigma))), dt),
             RMul(sigma, Norm(k, 4)))

\* np.exp, to second order: 1 + x + x^2/2 for x >= 0 and its reciprocal at -x
Exp(x) ==
    LET y == RAbs(x)
        e == RAdd(RAdd(Rat(1), y), RMul(<<1, 2>>, RMul(y, y)))
    IN  IF RLt(x, Zero) THEN <<e[2], e[1]>> ELSE e

\* fault variant: column 0 left at the zeros of line 23
FirstColumnUnset(S0) == Zero

\* line 24: prices[:, 0] = S0
FirstColumn(S0) == Rat(S0)

\* lines 24-33: the price of row s on day t; Z[s, t-1] is draw s * (D-1) + t-1
RECURSIVE PathPrice(_, _, _, _, _, _, _)
PathPrice(S0, ndays, drift_pct, volatility_pct, state, s, t) ==
    IF t = 0 THEN FirstColumn(S0)
    ELSE RMul(PathPrice(S0, ndays, drift_pct, volatility_pct, state, s, t - 1),
              Exp(Exponent(drift_pct, volatility_pct,
                           ShockOf(state, s * (ndays - 1) + t - 1))))

\* lines 22-35: the batch built from the draws that start at a state
PathsFrom(S0, ndays, drift_pct, volatility_pct, nsims, state) ==
    [s \in 0..(nsims - 1) |->
        [t \in 0..(ndays - 1) |->
            PathPrice(S0, ndays, drift_pct, volatility_pct, state, s, t)]]

\* simulate_gbm_paths(S0, num_days, drift_pct, volatility_pct, num_simulations,
\* random_seed); the calls of one process differ in the seed only
simulate_gbm_paths ==
    /\ pc = "generate"
    /\ Len(calls) < MaxCalls
    /\ \E S0 \in StartPrices, ndays \in 2..MaxDays, drift_pct \in Drifts,
          volatility_pct \in Volatilities, nsims \in 1..NumSims,
          random_seed \in Seeds :
        /\ calls # <<>> =>
                /\ S0 = calls[1].S0
                /\ ndays = calls[1].num_days
                /\ drift_pct = calls[1].drift_pct
                /\ nsims = calls[1].num_simulations
        /\ LET state == StateAfterSeed(rng, random_seed)
               out == PathsFrom(S0, ndays, drift_pct, volatility_pct, nsims, state)
           IN  /\ rng' = StateAfterDraws(state, nsims * (ndays - 1))
               /\ prices' = out
               /\ calls' = Append(calls,
                        [S0 |-> S0, num_days |-> ndays, drift_pct |-> drift_pct,
                         volatility_pct |-> volatility_pct,
                         num_simulations |-> nsims, random_seed |-> random_seed,
                         state_before |-> rng, prices |-> out])
    /\ UNCHANGED <<parameters, pc, sim, day, remaining_usd, benchmark, results,
                   rule, metrics>>

\* a process before its first call: the random state is whatever the platform
\* seeded it with
InitGbm ==
    /\ rng \in 0..(RngStates - 1)
    /\ calls = <<>>
    /\ prices = <<>>
    /\ pc = "generate"
    /\ total_usd = Zero
    /\ target_duration = 1
    /\ min_duration = 1
    /\ max_duration = 1
    /\ benchmark_discount_bps = 0
    /\ sim = 0
    /\ day = 0
    /\ remaining_usd = Zero
    /\ benchmark = <<>>
    /\ results = <<>>
    /\ rule = <<>>
    /\ metrics = <<>>

NextGbm == simulate_gbm_paths

SpecGbm == InitGbm /\ [][NextGbm]_vars

(***************************************************************************)
(* Properties.                                                             *)
(***************************************************************************)
Rows == 0..(num_simulations - 1)
Days == 0..(num_days - 1)
AdaptiveStrategies == {"strategy_2", "strategy_3"}

Rank(k) ==
    CASE k = "strategy_1" -> 1
      [] k = "strategy_2" -> 2
      [] k = "strategy_3" -> 3
      [] OTHER -> 4

\* strategy k has returned its execution record
Returned(k) == Rank(pc) > Rank(k)

\* row s of strategy k has its terminal day
RowDone(k, s) == Returned(k) \/ (pc = k /\ k \in AdaptiveStrategies /\ s < sim)

ValidConfig ==
    /\ 1 <= min_duration
    /\ min_duration <= target_duration
    /\ target_duration <= max_duration
    /\ max_duration <= num_days

EndDay(k, s) == results[k].actual_end_days[s]

\* sum(usd_executed[s, :end_day])
Spent(k, s) == SumTo(results[k].usd_executed[s], EndDay(k, s))

\* |sum(usd_executed[s, :end_day]) - total_usd|
Shortfall(k, s) == RAbs(RSub(Spent(k, s), total_usd))

\* C1 as stated: for every strategy, every finished row and every valid
\* configuration with a positive budget, the usd executed over days
\* 0..end_day-1 differs from total_usd by less than 0.01.
C1_AsStated ==
    \A k \in Strategies : \A s \in Rows :
        (RowDone(k, s) /\ ValidConfig /\ RLt(Zero, total_usd))
            => RLt(Shortfall(k, s), StopThreshold)

\* C1 (amended): for every strategy, every finished row and every valid
\* configuration with a positive budget, the usd executed over days
\* 0..end_day-1 differs from total_usd by at most 0.01.
C1_BudgetConservation ==
    \A k \in Strategies : \A s \in Rows :
        (RowDone(k, s) /\ ValidConfig /\ RLt(Zero, total_usd))
            => RLe(Shortfall(k, s), StopThreshold)

\* an adaptive row of a valid run that stopped early, leaving a remainder unspent
C1_Witness ==
    /\ pc = "done"
    /\ ValidConfig
    /\ \E s \in Rows :
        /\ EndDay("strategy_2", s) < max_duration
        /\ RLt(Zero, Shortfall("strategy_2", s))
        /\ RLt(Shortfall("strategy_2", s), StopThreshold)

\* C2: for every strategy and every finished row, every day at or beyond the
\* terminal day has zero usd executed and zero shares acquired.
C2_NothingAfterEndDay ==
    \A k \in Strategies : \A s \in Rows :
        RowDone(k, s) =>
            \A d \in Days :
                d >= EndDay(k, s) =>
                    /\ results[k].usd_executed[s][d] = Zero
                    /\ results[k].shares_acquired[s][d] = Zero

\* a row that stopped by itself after trading, with days left over in the grid
C2_Witness ==
    /\ pc = "done"
    /\ \E s \in Rows :
        /\ 1 < EndDay("strategy_2", s)
        /\ EndDay("strategy_2", s) < LoopDays(num_days, max_duration)
        /\ results["strategy_2"].usd_executed[s][EndDay("strategy_2", s) - 1] # Zero

\* the day loop of row s of strategy k ran out: its last day was traded
LoopRanOut(k, s) ==
    rule[k][s][LoopDays(num_days, max_duration) - 1] # "none"

\* C3: the terminal day of every finished Adaptive and Adaptive-Discounted row
\* is at least 1, at most max_duration and at most the day count; when the day
\* loop ran out without a stop it is exactly min(max_duration, num_days).
C3_EndDayBounds ==
    \A k \in AdaptiveStrategies : \A s \in Rows :
        RowDone(k, s) =>
            /\ 1 <= EndDay(k, s)
            /\ EndDay(k, s) <= max_duration
            /\ EndDay(k, s) <= num_days
            /\ LoopRanOut(k, s) => EndDay(k, s) = Min(max_duration, num_days)

\* a row whose loop ran out on the last day of a grid shorter than max_duration
C3_Witness ==
    /\ pc = "done"
    /\ num_days < max_duration
    /\ \E s \in Rows :
        /\ LoopRanOut("strategy_3", s)
        /\ EndDay("strategy_3", s) = num_days

\* C4 as stated: in every valid configuration every finished adaptive row has
\* end_day >= min_duration.
C4_AsStated ==
    \A k \in AdaptiveStrategies : \A s \in Rows :
        (RowDone(k, s) /\ ValidConfig) => EndDay(k, s) >= min_duration

\* C4 (amended): in every valid configuration whose reference daily rate
\* total_usd / target_duration exceeds 0.01, every finished adaptive row has
\* end_day >= min_duration.
C4_NeverBeforeMinDuration ==
    \A k \in AdaptiveStrategies : \A s \in Rows :
        (/\ RowDone(k, s)
         /\ ValidConfig
         /\ RLt(StopThreshold, DailyUsd(total_usd, target_duration)))
            => EndDay(k, s) >= min_duration

\* a row that paced its trades and finished exactly at min_duration, before
\* max_duration
C4_Witness ==
    /\ pc = "done"
    /\ ValidConfig
    /\ RLt(StopThreshold, DailyUsd(total_usd, target_duration))
    /\ min_duration < max_duration
    /\ \E s \in Rows :
        /\ EndDay("strategy_2", s) = min_duration
        /\ \E d \in Days : rule["strategy_2"][s][d] = "pace"

\* C5: once Fixed-Schedule has returned, every row holds total_usd /
\* target_duration on each of the days 0..min(target_duration, num_days)-1 and
\* zero on every other day, and its terminal day is min(target_duration,
\* num_days); the grid is a function of the shape, the budget and the target
\* alone, so two batches of the same shape give the same grid and terminal day.
C5_FixedScheduleIgnoresPrices ==
    Returned("strategy_1") =>
        \A s \in Rows :
            /\ EndDay("strategy_1", s) = Min(target_duration, num_days)
            /\ \A d \in Days :
                results["strategy_1"].usd_executed[s][d] =
                    IF d < Min(target_duration, num_days)
                    THEN Norm(total_usd[1], total_usd[2] * target_duration)
                    ELSE Zero

\* Fixed-Schedule has returned on a batch whose rows differ and whose grid is
\* longer than the target
C5_Witness ==
    /\ Returned("strategy_1")
    /\ num_simulations = 2
    /\ prices[0] # prices[1]
    /\ 1 < target_duration
    /\ target_duration < num_days

\* C6 as stated: for every target_duration >= 1 and every day count, the usd
\* Fixed-Schedule executes over days 0..min(target_duration, num_days)-1 is
\* within 0.01 of total_usd.
C6_AsStated ==
    Returned("strategy_1") =>
        \A s \in Rows : RLt(Shortfall("strategy_1", s), StopThreshold)

\* C6 (amended): for every target_duration with 1 <= target_duration <=
\* num_days, the usd Fixed-Schedule executes over days 0..target_duration-1 is
\* within 0.01 of total_usd.
C6_FixedScheduleDeploysBudget ==
    (Returned("strategy_1") /\ target_duration <= num_days) =>
        \A s \in Rows : RLt(Shortfall("strategy_1", s), StopThreshold)

\* Fixed-Schedule has returned after trading several days of a long enough grid
C6_Witness ==
    /\ Returned("strategy_1")
    /\ 1 < target_duration
    /\ target_duration <= num_days
    /\ \A s \in Rows : Spent("strategy_1", s) = total_usd

\* what a strategy returns for row s
RowOf(res, s) ==
    [usd_executed |-> res.usd_executed[s],
     shares_acquired |-> res.shares_acquired[s],
     cumulative_shares |-> res.cumulative_shares[s],
     end_day |-> res.actual_end_days[s]]

\* the price levels the batch is drawn from
LevelsOf(p) == IF NumCols(p) = LongDays THEN LongLevels ELSE PriceLevels

\* the batches of the same shape that agree with the run's batch on row s and
\* differ from it in at most one other row
AltBatches(s) ==
    {prices} \cup
    {[prices EXCEPT ![o] = r] :
        o \in Rows \ {s}, r \in [Days -> {Rat(x) : x \in LevelsOf(prices)}]}

\* the discount the series in benchmark was computed with
DiscountInUse == IF pc = "strategy_2" THEN 0 ELSE benchmark_discount_bps

\* Fixed-Schedule has just returned its record
Strategy1Returned == pc = "strategy_2" /\ sim = 0 /\ day = 0

\* the adaptive strategy in pc has finished its last row and is about to return
AdaptiveReturning == Adaptive /\ sim = num_simulations

\* C7 as stated (here on valid configurations only): for each of the three
\* strategies, a batch of the same shape that agrees with the run's batch on
\* row i gives row i the same usd_executed, shares_acquired, cumulative_shares
\* and end_day, whatever its other rows hold.
C7_AsStated ==
    /\ (Strategy1Returned /\ ValidConfig) =>
        \A s \in Rows : \A q \in AltBatches(s) :
            RowOf(execute_strategy_1(q, Config), s) = RowOf(results["strategy_1"], s)
    /\ (AdaptiveReturning /\ ValidConfig) =>
        \A s \in Rows : \A q \in AltBatches(s) :
            RowOf(execute_strategy_2(q, Config,
                      calculate_arithmetic_mean_benchmark(q, DiscountInUse)), s)
                = RowOf(results[pc], s)

\* C7 (amended): a batch of the same shape that agrees with the run's batch on
\* row i gives row i the same four outputs under Fixed-Schedule, and under
\* Adaptive and Adaptive-Discounted when both runs consult the same
\* decision-benchmark series: the other rows reach row i through that series only.
C7_RowsInteractOnlyThroughBenchmark ==
    /\ Strategy1Returned =>
        \A s \in Rows : \A q \in AltBatches(s) :
            RowOf(execute_strategy_1(q, Config), s) = RowOf(results["strategy_1"], s)
    /\ AdaptiveReturning =>
        \A s \in Rows : \A q \in AltBatches(s) :
            RowOf(execute_strategy_2(q, Config, benchmark), s) = RowOf(results[pc], s)

\* Adaptive-Discounted about to return on a batch whose first two rows differ,
\* the second having accelerated on a day on which the first decelerated
C7_Witness ==
    /\ pc = "strategy_3"
    /\ sim = num_simulations
    /\ num_simulations >= 2
    /\ prices[0] # prices[1]
    /\ \E d \in Days :
        /\ rule["strategy_3"][0][d] = "decelerate"
        /\ rule["strategy_3"][1][d] = "accelerate"

\* C8: the record execute_strategy_3 returns is the one execute_strategy_2
\* returns when given benchmark = calculate_arithmetic_mean_benchmark(prices,
\* discount); with a discount of 0 it is the record Adaptive returned.
C8_DiscountedIsAdaptiveOnDiscountedBenchmark ==
    pc = "done" =>
        /\ results["strategy_3"] =
              execute_strategy_2(prices, Config,
                  calculate_arithmetic_mean_benchmark(prices, benchmark_discount_bps))
        /\ benchmark_discount_bps = 0 =>
              results["strategy_3"] = results["strategy_2"]

\* a finished run in which the discount changed what was traded
C8_Witness ==
    /\ pc = "done"
    /\ benchmark_discount_bps > 0
    /\ results["strategy_3"].usd_executed # results["strategy_2"].usd_executed

ReactiveRules == {"accelerate", "pace", "decelerate", "throttle"}
AccelerateRules == {"accelerate", "pace"}

\* C9 as stated (here on valid configurations only): with a positive discount,
\* on every day on which both Adaptive and Adaptive-Discounted take a reactive
\* decision for a row, Adaptive seeing price < benchmark implies
\* Adaptive-Discounted seeing price < benchmark.
C9_AsStated ==
    (pc = "done" /\ ValidConfig /\ benchmark_discount_bps > 0) =>
        \A s \in Rows : \A d \in Days :
            (/\ rule["strategy_2"][s][d] \in AccelerateRules
             /\ rule["strategy_3"][s][d] \in ReactiveRules)
                => rule["strategy_3"][s][d] \in AccelerateRules

\* the sum of the prices of all rows over the days 0..d, cell by cell
RECURSIVE PriceTotal(_, _)
PriceTotal(d, k) ==
    IF k = 0 THEN 0
    ELSE PriceTotal(d, k - 1) + prices[(k - 1) \div (d + 1)][(k - 1) % (d + 1)][1]

\* C10: the decision benchmark has one value per day; the value of day d times
\* the number of prices in rows 0..N-1, days 0..d is their sum, times
\* (1 - discount/10000) when the discount is positive; on a batch of prices all
\* 100 with a discount of 100 bps every value is 99.
C10_DecisionBenchmark ==
    pc \in {"strategy_2", "strategy_3", "done"} =>
        /\ DOMAIN benchmark = Days
        /\ \A d \in Days :
            RMul(benchmark[d], Rat(num_simulations * (d + 1) * 10000)) =
                Rat(PriceTotal(d, num_simulations * (d + 1))
                    * (IF DiscountInUse > 0 THEN 10000 - DiscountInUse ELSE 10000))
        /\ ((\A s \in Rows : \A d \in Days : prices[s][d] = Rat(100))
                /\ DiscountInUse = 100)
            => \A d \in Days : benchmark[d] = Rat(99)

\* the discounted benchmark of a two-row batch of prices all 100
C10_Witness ==
    /\ pc = "strategy_3"
    /\ num_simulations = 2
    /\ num_days > 1
    /\ \A s \in Rows : \A d \in Days : prices[s][d] = Rat(100)
    /\ benchmark_discount_bps = 100
    /\ benchmark[1] = Rat(99)

\* the adaptive row in progress has just traded day - 1
JustTraded == Adaptive /\ sim < num_simulations /\ day > 0

\* C19: on every traded day of an adaptive row other than day max_duration - 1,
\* the usd executed is total/target when day < min(10, min_duration); else, when
\* price < benchmark, min(remaining, 5 * total/target) if day >= min_duration
\* and remaining / max(1, min_duration - day) if not; else (price >= benchmark)
\* remaining / max(1, max_duration - day), replaced by the smaller of it and
\* 0.1 * total/target exactly when remaining < 5 * total/target and
\* max_duration - day > 5.
C19_PerDayTrade ==
    (JustTraded /\ day - 1 # max_duration - 1) =>
        LET d == day - 1
            traded == results[pc].usd_executed[sim][d]
            remaining == RAdd(remaining_usd, traded)
            price == prices[sim][d]
            bench == CurrentBenchmark(benchmark, d)
            first_day_value == <<total_usd[1], total_usd[2] * target_duration>>
            five == <<5 * total_usd[1], total_usd[2] * target_duration>>
            tenth == <<total_usd[1], 10 * total_usd[2] * target_duration>>
            base == RDiv(remaining, Rat(IF max_duration - d < 1 THEN 1
                                        ELSE max_duration - d))
        IN  IF d < 10 /\ d < min_duration
            THEN RSub(traded, first_day_value)[1] = 0
            ELSE IF RLt(price, bench)
            THEN IF d >= min_duration
                 THEN traded = (IF RLe(remaining, five) THEN remaining
                                ELSE Norm(five[1], five[2]))
                 ELSE traded = RDiv(remaining, Rat(min_duration - d))
            ELSE IF RLt(remaining, five) /\ max_duration - d > 5
            THEN traded = (IF RLe(base, tenth) THEN base
                           ELSE Norm(tenth[1], tenth[2]))
            ELSE traded = base

\* a row that throttled its trade on a day on which the price equalled the
\* benchmark
C19_Witness ==
    /\ JustTraded
    /\ rule[pc][sim][day - 1] = "throttle"
    /\ prices[sim][day - 1] = CurrentBenchmark(benchmark, day - 1)

\* C20: a row that trades on day max_duration - 1 (its remaining budget being
\* above 0.01) trades all of it, whatever the price and the benchmark and also
\* when that day lies in the ramp: the remaining budget is then 0 and the row
\* has spent total_usd.
C20_ForcedFinishFirst ==
    (JustTraded /\ day - 1 = max_duration - 1) =>
        /\ remaining_usd = Zero
        /\ RLt(StopThreshold, results[pc].usd_executed[sim][day - 1])
        /\ SumTo(results[pc].usd_executed[sim], day) = total_usd
        /\ rule[pc][sim][day - 1] = "forced"

\* a forced finish on a ramp day, of an amount other than the ramp's
C20_Witness ==
    /\ JustTraded
    /\ day = max_duration
    /\ day - 1 < Min(RampCap, min_duration)
    /\ results[pc].usd_executed[sim][day - 1] # DailyUsd(total_usd, target_duration)
    /\ remaining_usd = Zero

\* the ordering of the duration arguments
DurationsOrdered ==
    /\ 1 <= min_duration
    /\ min_duration <= target_duration
    /\ target_duration <= max_duration

\* C14 as stated: when the durations break 1 <= min_duration <=
\* target_duration <= max_duration, no strategy trades a day and none returns
\* an execution record.
C14_AsStated ==
    ~DurationsOrdered =>
        /\ pc = "strategy_1"
        /\ \A k \in Strategies : \A s \in Rows : \A d \in Days :
                /\ rule[k][s][d] = "none"
                /\ results[k].usd_executed[s][d] = Zero

\* C18: no step of execute_all_strategies changes the price batch, and the
\* decision-benchmark series a strategy was given is the same at every step of
\* that strategy; so all three strategies read the same prices.
C18_InputsReadOnly ==
    [][/\ prices' = prices
       /\ pc' = pc => benchmark' = benchmark]_vars

\* all three strategies have traded, the adaptive ones not like the fixed one
C18_Witness ==
    /\ pc = "done"
    /\ results["strategy_2"].usd_executed # results["strategy_1"].usd_executed
    /\ results["strategy_3"].usd_executed # results["strategy_2"].usd_executed

\* the prices of row s over the days 0..e-1, added up one by one
RECURSIVE RowPriceTotal(_, _)
RowPriceTotal(s, e) ==
    IF e = 0 THEN 0 ELSE RowPriceTotal(s, e - 1) + prices[s][e - 1][1]

\* C11: the VWAP of every row of every entry, times the shares acquired over
\* days 0..end_day-1, is the usd executed over those days when that share sum
\* is positive, and the VWAP is 0 when it is not; what the record holds at or
\* beyond end_day plays no part.
C11_VwapOverTradedDays ==
    pc = "reported" =>
        \A k \in Strategies : \A s \in Rows :
            LET e == EndDay(k, s)
                spent == SumTo(results[k].usd_executed[s], e)
                shares == SumTo(results[k].shares_acquired[s], e)
            IN  IF RLt(Zero, shares)
                THEN RMul(metrics[k].vwap[s], shares) = spent
                ELSE metrics[k].vwap[s] = Zero

\* one row with usd after its end day and a positive VWAP beside a row that
\* acquired nothing before its end day but something after it
C11_Witness ==
    /\ pc = "reported"
    /\ num_simulations >= 2
    /\ EndDay("strategy_1", 0) < num_days
    /\ results["strategy_1"].usd_executed[0][EndDay("strategy_1", 0)] # Zero
    /\ metrics["strategy_1"].vwap[0] # Zero
    /\ metrics["strategy_1"].vwap[1] = Zero
    /\ SumTo(results["strategy_1"].usd_executed[1], num_days) # Zero

\* C12: the evaluation benchmark of a row with end_day >= 1, times end_day, is
\* the sum of that row's prices over days 0..end_day-1, times
\* (1 - discount/10000) for the entry strategy_3 when the discount is
\* positive; the entries strategy_1 and strategy_2 do not depend on the
\* discount.
C12_EvaluationBenchmark ==
    pc = "reported" =>
        \A k \in Strategies : \A s \in Rows :
            LET e == EndDay(k, s)
                scale == IF k = "strategy_3" /\ benchmark_discount_bps > 0
                         THEN 10000 - benchmark_discount_bps
                         ELSE 10000
            IN  IF e = 0
                THEN metrics[k].benchmark_prices[s] = NaN
                ELSE RMul(metrics[k].benchmark_prices[s], Rat(e * 10000))
                        = Rat(RowPriceTotal(s, e) * scale)

\* rows of different prices and end days, with a discount that lowers the
\* benchmark of strategy_3 below the one of strategy_2
C12_Witness ==
    /\ pc = "reported"
    /\ benchmark_discount_bps > 0
    /\ num_simulations >= 2
    /\ 1 <= EndDay("strategy_2", 0)
    /\ EndDay("strategy_2", 0) < EndDay("strategy_2", 1)
    /\ prices[0] # prices[1]
    /\ metrics["strategy_1"].benchmark_prices[0] # metrics["strategy_1"].benchmark_prices[1]
    /\ RLt(metrics["strategy_3"].benchmark_prices[0],
           metrics["strategy_2"].benchmark_prices[0])

\* C13: the score of every row with a positive benchmark is
\* -((VWAP - benchmark) / benchmark) * 10000: positive exactly when VWAP <
\* benchmark, 0 when they are equal, negative when VWAP > benchmark; VWAP 102,
\* 98 and 100 against 100 score -200, 200 and 0.
C13_ScoreSign ==
    /\ pc = "reported" =>
        \A k \in Strategies : \A s \in Rows :
            LET v == metrics[k].vwap[s]
                b == metrics[k].benchmark_prices[s]
                score == metrics[k].performance_bps[s]
            IN  (b # NaN /\ RLt(Zero, b)) =>
                    /\ RMul(score, b) = RMul(RSub(b, v), Rat(10000))
                    /\ RLt(Zero, score) <=> RLt(v, b)
                    /\ score = Zero <=> v = b
                    /\ RLt(score, Zero) <=> RLt(b, v)
    /\ calculate_execution_performance_bps(
            <<Rat(102), Rat(98), Rat(100)>>, <<Rat(100), Rat(100), Rat(100)>>)
          = <<Rat(-200), Rat(200), Rat(0)>>

\* a row scored above its benchmark beside a row scored below its own
C13_Witness ==
    /\ pc = "reported"
    /\ num_simulations >= 2
    /\ RLt(Zero, metrics["strategy_1"].vwap[0])
    /\ RLt(Zero, metrics["strategy_1"].performance_bps[0])
    /\ EndDay("strategy_1", 1) > 0
    /\ RLt(Zero, metrics["strategy_1"].vwap[1])
    /\ RLt(metrics["strategy_1"].performance_bps[1], Zero)

Calls == 1..Len(calls)

\* the arguments of call i other than the seed
ArgsOf(i) ==
    <<calls[i].S0, calls[i].num_days, calls[i].drift_pct, calls[i].volatility_pct,
      calls[i].num_simulations>>

\* C15: every batch simulate_gbm_paths returned has num_simulations rows of
\* num_days prices, holds S0 in column 0 of every row and only prices > 0.
C15_ShapeFirstColumnPositive ==
    \A i \in Calls :
        /\ DOMAIN calls[i].prices = 0..(calls[i].num_simulations - 1)
        /\ \A s \in DOMAIN calls[i].prices :
            /\ DOMAIN calls[i].prices[s] = 0..(calls[i].num_days - 1)
            /\ calls[i].prices[s][0] = Rat(calls[i].S0)
            /\ \A t \in DOMAIN calls[i].prices[s] :
                    RLt(Zero, calls[i].prices[s][t])

\* a batch of several rows in which one price fell below S0 and one rose above
C15_Witness ==
    \E i \in Calls :
        /\ calls[i].num_simulations >= 2
        /\ calls[i].num_days >= 3
        /\ \E s1, s2 \in DOMAIN calls[i].prices :
            \E t1, t2 \in DOMAIN calls[i].prices[0] :
                /\ RLt(calls[i].prices[s1][t1], Rat(calls[i].S0))
                /\ RLt(Rat(calls[i].S0), calls[i].prices[s2][t2])

\* C16: two calls of one process with the same seed and the same other
\* arguments returned the same batch, whatever was called before each.
C16_SeededReproducible ==
    \A i, j \in Calls :
        (/\ calls[i].random_seed # NoSeed
         /\ calls[i].random_seed = calls[j].random_seed
         /\ ArgsOf(i) = ArgsOf(j))
            => calls[i].prices = calls[j].prices

\* a seeded call repeated after an unseeded call, from another random state
C16_Witness ==
    /\ Len(calls) = 3
    /\ calls[1].random_seed # NoSeed
    /\ calls[2].random_seed = NoSeed
    /\ calls[3].random_seed = calls[1].random_seed
    /\ ArgsOf(3) = ArgsOf(1)
    /\ calls[3].state_before # calls[1].state_before
    /\ calls[2].prices # calls[1].prices
    /\ calls[3].prices = calls[1].prices

\* C17 as stated: a seeded call leaves behind nothing that reaches the next
\* call: an unseeded call made right after it returns the batch it would have
\* returned from the random state the process was in before the seeded call.
C17_AsStated ==
    \A i \in Calls :
        (/\ i + 1 \in Calls
         /\ calls[i].random_seed # NoSeed
         /\ calls[i + 1].random_seed = NoSeed)
            => calls[i + 1].prices =
                  PathsFrom(calls[i + 1].S0, calls[i + 1].num_days,
                            calls[i + 1].drift_pct, calls[i + 1].volatility_pct,
                            calls[i + 1].num_simulations, calls[i].state_before)

\* what row s of strategy k had left at the start of day d
RemainingAt(k, s, d) == RSub(total_usd, SumTo(results[k].usd_executed[s], d))

\* the first day of the loop at whose start row s of strategy k had at most
\* 0.01 left; the loop length when there is none
StopDay(k, s) ==
    LET loop == LoopDays(num_days, max_duration)
        hit == {d \in 0..(loop - 1) : RLe(RemainingAt(k, s, d), StopThreshold)}
    IN  IF hit = {} THEN loop ELSE CHOOSE d \in hit : \A e \in hit : d <= e

\* C21 as stated: an adaptive row that has at most 0.01 left at the start of
\* day d (d = 0 included, which happens when total_usd <= 0.01) trades nothing
\* on day d or later and reports d as its terminal day.
C21_AsStated ==
    \A s \in Rows :
        (RowDone("strategy_2", s)
            /\ StopDay("strategy_2", s) < LoopDays(num_days, max_duration)) =>
            /\ EndDay("strategy_2", s) = StopDay("strategy_2", s)
            /\ \A t \in Days :
                  t >= StopDay("strategy_2", s) =>
                      results["strategy_2"].usd_executed[s][t] = Zero

\* C22: while an adaptive row is in progress, 0 <= remaining_usd <= total_usd
\* and remaining_usd plus the usd executed so far is total_usd; the trade just
\* made is not negative, so the remaining budget did not increase, and it is at
\* most what was left before it.
C22_NeverOverspend ==
    (Adaptive /\ sim < num_simulations) =>
        /\ RLe(Zero, remaining_usd)
        /\ RLe(remaining_usd, total_usd)
        /\ RAdd(remaining_usd, SumTo(results[pc].usd_executed[sim], day)) = total_usd
        /\ day > 0 =>
              LET traded == results[pc].usd_executed[sim][day - 1]
                  before == RemainingAt(pc, sim, day - 1)
              IN  /\ RLe(Zero, traded)
                  /\ RLe(traded, before)
                  /\ RLe(remaining_usd, before)

\* a row that sped up on its second day or later and spent all it had left,
\* less than five times the first day's value
C22_Witness ==
    /\ JustTraded
    /\ day >= 2
    /\ rule[pc][sim][day - 1] = "accelerate"
    /\ remaining_usd = Zero
    /\ RLt(results[pc].usd_executed[sim][day - 1],
           RMul(Rat(SpeedUpFactor), DailyUsd(total_usd, target_duration)))

\* the days on which row s of strategy k spent a positive amount
TradedDays(k, s) == {d \in Days : RLt(Zero, results[k].usd_executed[s][d])}

\* C23 as stated: for every strategy, every finished row and every
\* total_usd > 0, the usd executed is positive on every day before the terminal
\* day, and the terminal day is the number of days on which the row spent a
\* positive amount.
C23_AsStated ==
    \A k \in Strategies : \A s \in Rows :
        (RowDone(k, s) /\ RLt(Zero, total_usd)) =>
            /\ \A d \in Days :
                  d < EndDay(k, s) => RLt(Zero, results[k].usd_executed[s][d])
            /\ EndDay(k, s) = Cardinality(TradedDays(k, s))

\* C29 as stated: for every strategy, every finished row and every day of the
\* grid, days at or after the terminal day included, cumulative_shares is the
\* sum of shares_acquired up to and including that day, and so never decreases
\* from one day to the next.
C29_AsStated ==
    \A k \in Strategies : \A s \in Rows :
        RowDone(k, s) =>
            \A d \in Days :
                /\ results[k].cumulative_shares[s][d] =
                      SumTo(results[k].shares_acquired[s], d + 1)
                /\ d > 0 => RLe(results[k].cumulative_shares[s][d - 1],
                               results[k].cumulative_shares[s][d])

\* row s saw price < benchmark on every day lo..hi
FavorableOn(s, lo, hi) ==
    \A d \in lo..hi :
        Favorable(PriceAt(prices, s, d), CurrentBenchmark(benchmark, d))

\* row s of Adaptive paced its trades from day 10 to day min_duration - 1, spent
\* the last of its budget on day min_duration - 1 and ended at min_duration
PacedToMinimum(s) ==
    /\ \A d \in RampCap..(min_duration - 1) :
          RMul(results["strategy_2"].usd_executed[s][d], Rat(min_duration - d)) =
              RemainingAt("strategy_2", s, d)
    /\ RLt(Zero, results["strategy_2"].usd_executed[s][min_duration - 1])
    /\ RemainingAt("strategy_2", s, min_duration) = Zero
    /\ EndDay("strategy_2", s) = min_duration

\* C26 as stated: when min_duration > 10 and price < benchmark on every day
\* from day 10 to day min_duration - 1, the paced trades
\* remaining / (min_duration - day) use up the budget exactly with the trade of
\* day min_duration - 1 and the terminal day is min_duration.
C26_AsStated ==
    \A s \in Rows :
        (/\ RowDone("strategy_2", s)
         /\ min_duration > RampCap
         /\ min_duration <= num_days
         /\ FavorableOn(s, RampCap, min_duration - 1)) => PacedToMinimum(s)

\* C26, amended: the same for ordered durations that fit the grid and a daily
\* rate total_usd / target_duration above the stop threshold 0.01.
C26_PacingEndsAtMinDuration ==
    \A s \in Rows :
        (/\ RowDone("strategy_2", s)
         /\ min_duration > RampCap
         /\ ValidConfig
         /\ RLt(StopThreshold, DailyUsd(total_usd, target_duration))
         /\ FavorableOn(s, RampCap, min_duration - 1)) => PacedToMinimum(s)

\* a row that, after ten ramp days, paced on day 10 towards min_duration = 12
\* with price < benchmark and ended at day 12
C26_Witness ==
    /\ pc = "done"
    /\ min_duration = RampCap + 2
    /\ FavorableOn(0, RampCap, min_duration - 1)
    /\ rule["strategy_2"][0][RampCap] = "pace"
    /\ RLt(StopThreshold, results["strategy_2"].usd_executed[0][RampCap])
    /\ EndDay("strategy_2", 0) = min_duration

(***************************************************************************)
(* execute_all_strategies on one row that rises, falls or stays level.     *)
(***************************************************************************)
\* the longest trending row
TrendDays == 7

TrendSteps == {1, 2}
TrendBudgets == {<<1, 50>>, <<3, 100>>, <<1000, 1>>}

RECURSIVE StepSum(_, _)
StepSum(steps, t) == IF t = 0 THEN 0 ELSE StepSum(steps, t - 1) + steps[t]

\* a row of d days from `first`, moving by steps[t] in direction dir each day
TrendRow(d, first, dir, steps) ==
    [t \in 0..(d - 1) |-> Rat(first + dir * StepSum(steps, t))]

\* one-row batches of d days: every rising row from 1, every falling row from
\* 2 * d (so that every price stays positive), and the level rows
TrendBatches(d) ==
    {[s \in {0} |-> TrendRow(d, 1, 1, steps)] : steps \in [1..(d - 1) -> TrendSteps]}
        \cup {[s \in {0} |-> TrendRow(d, 2 * d, -1, steps)] :
                  steps \in [1..(d - 1) -> TrendSteps]}
        \cup {Grid(1, d, Rat(c)) : c \in PriceLevels}

\* the call of execute_all_strategies with ordered durations that fit the grid
\* and a positive discount
InitTrend ==
    /\ \E d \in 1..TrendDays : prices \in TrendBatches(d)
    /\ total_usd \in TrendBudgets
    /\ min_duration \in 1..num_days
    /\ target_duration \in min_duration..num_days
    /\ max_duration \in target_duration..num_days
    /\ benchmark_discount_bps \in Discounts \ {0}
    /\ Start

SpecTrend == InitTrend /\ [][Next]_vars

Rising(row) == \A t \in DOMAIN row : t > 0 => RLt(row[t - 1], row[t])
Falling(row) == \A t \in DOMAIN row : t > 0 => RLt(row[t], row[t - 1])
Level(row) == \A t \in DOMAIN row : row[t] = row[0]

SlowDownRules == {"decelerate", "throttle"}

\* the rules row s of strategy k took on its reactive days
ReactiveTaken(k, s) == {rule[k][s][d] : d \in Days} \cap ReactiveRules

\* C24 as stated: for a one-row batch of strictly rising prices and every valid
\* configuration, Adaptive takes the price >= benchmark branch (decelerate,
\* throttled or not) on every reactive day and its terminal day is at least
\* target_duration.
C24_AsStated ==
    (/\ RowDone("strategy_2", 0)
     /\ num_simulations = 1
     /\ Rising(prices[0])
     /\ ValidConfig) =>
        /\ ReactiveTaken("strategy_2", 0) \subseteq SlowDownRules
        /\ EndDay("strategy_2", 0) >= target_duration

\* C24, amended: the same when the daily rate total_usd / target_duration is
\* above the stop threshold 0.01.
C24_RiseDrivesDeceleration ==
    (/\ RowDone("strategy_2", 0)
     /\ num_simulations = 1
     /\ Rising(prices[0])
     /\ ValidConfig
     /\ RLt(StopThreshold, DailyUsd(total_usd, target_duration))) =>
        /\ ReactiveTaken("strategy_2", 0) \subseteq SlowDownRules
        /\ EndDay("strategy_2", 0) >= target_duration

\* a rising row that both throttled and decelerated and ended after its target
C24_Witness ==
    /\ Returned("strategy_2")
    /\ num_simulations = 1
    /\ Rising(prices[0])
    /\ num_days > 2
    /\ ReactiveTaken("strategy_2", 0) = SlowDownRules
    /\ RLt(StopThreshold, DailyUsd(total_usd, target_duration))
    /\ EndDay("strategy_2", 0) > target_duration

C27_AsStated ==
    (/\ RowDone("strategy_3", 0)
     /\ num_simulations = 1
     /\ Level(prices[0])
     /\ benchmark_discount_bps > 0) =>
        /\ \A d \in Days : RLt(CurrentBenchmark(benchmark, d), prices[0][d])
        /\ ReactiveTaken("strategy_3", 0) \cap AccelerateRules = {}
        /\ Spent("strategy_3", 0) = total_usd
        /\ EndDay("strategy_3", 0) >= target_duration

\* C27, amended: the same for a valid configuration whose daily rate
\* total_usd / target_duration is above the stop threshold 0.01, the budget
\* being spent to within 0.01.
C27_DiscountSlowsConstantBatch ==
    (/\ RowDone("strategy_3", 0)
     /\ num_simulations = 1
     /\ Level(prices[0])
     /\ benchmark_discount_bps > 0
     /\ ValidConfig
     /\ RLt(StopThreshold, DailyUsd(total_usd, target_duration))) =>
        /\ \A d \in Days : RLt(CurrentBenchmark(benchmark, d), prices[0][d])
        /\ ReactiveTaken("strategy_3", 0) \cap AccelerateRules = {}
        /\ RLe(Shortfall("strategy_3", 0), StopThreshold)
        /\ EndDay("strategy_3", 0) >= target_duration

\* a constant row on which Adaptive-Discounted slowed down, went past its
\* target and stopped with a remainder of at most 0.01 unspent
C27_Witness ==
    /\ pc = "done"
    /\ num_simulations = 1
    /\ Level(prices[0])
    /\ num_days > 2
    /\ benchmark_discount_bps > 0
    /\ RLt(StopThreshold, DailyUsd(total_usd, target_duration))
    /\ "throttle" \in ReactiveTaken("strategy_3", 0)
    /\ EndDay("strategy_3", 0) > target_duration
    /\ RLt(Zero, Shortfall("strategy_3", 0))

(***************************************************************************)
(* execute_all_strategies followed by calculate_all_metrics, as app.py     *)
(* runs them (lines 176-192).                                              *)
(***************************************************************************)
NextPipeline ==
    \/ Strategy1Day
    \/ Strategy1Return
    \/ StopRow
    \/ TradeDay
    \/ LoopExhausted
    \/ Strategy2Return
    \/ Strategy3Return
    \/ CalculateAllMetrics

SpecPipeline == InitSmall /\ [][NextPipeline]_vars

\* the batches of the run's shape that agree with its batch on the columns 0..d
SamePast(d) ==
    {q \in [Rows -> [Days -> {Rat(x) : x \in LevelsOf(prices)}]] :
        \A s \in Rows : \A t \in 0..d : q[s][t] = prices[s][t]}

\* the record the adaptive strategy in pc returns on batch q: the benchmark is
\* computed from q with the discount in use
AdaptiveOn(q) ==
    execute_strategy_2(q, Config,
        calculate_arithmetic_mean_benchmark(q, DiscountInUse))

\* C28: for Adaptive and Adaptive-Discounted, every day d and every batch of the
\* same shape that agrees with the run's batch on the price columns 0..d, the
\* decision benchmark of the days 0..d and the usd executed by every row on the
\* days 0..d are those of the run.
C28_NoLookAhead ==
    AdaptiveReturning =>
        \A d \in Days : \A q \in SamePast(d) :
            LET series == calculate_arithmetic_mean_benchmark(q, DiscountInUse)
                record == AdaptiveOn(q)
            IN  /\ \A t \in 0..d : series[t] = benchmark[t]
                /\ \A s \in Rows : \A t \in 0..d :
                      record.usd_executed[s][t] = results[pc].usd_executed[s][t]

\* an adaptive run and a batch that agrees with its batch on day 0, differs
\* later and is traded differently on day 1
C28_Witness ==
    /\ AdaptiveReturning
    /\ num_days >= 2
    /\ \E q \in SamePast(0) :
          /\ q # prices
          /\ \E s \in Rows :
                AdaptiveOn(q).usd_executed[s][1] # results[pc].usd_executed[s][1]

\* the sum of 1 / price over the days 0..e-1 of row s
RECURSIVE InversePriceTotal(_, _)
InversePriceTotal(s, e) ==
    IF e = 0 THEN Zero
    ELSE RAdd(InversePriceTotal(s, e - 1), RDiv(Rat(1), prices[s][e - 1]))

\* C30: when target_duration <= D, every row of Fixed-Schedule ends at
\* target_duration; its VWAP is the harmonic mean of the prices of days
\* 0..end_day-1, which is at most their arithmetic mean, so its performance
\* score is >= 0, and it is 0 exactly when all those prices are equal.
C30_FixedScheduleNeverBelowBenchmark ==
    (pc = "reported" /\ target_duration <= num_days) =>
        \A s \in Rows :
            LET e == metrics["strategy_1"].actual_end_days[s]
                vwap == metrics["strategy_1"].vwap[s]
                score == metrics["strategy_1"].performance_bps[s]
            IN  /\ e = target_duration
                /\ RMul(vwap, InversePriceTotal(s, e)) = Rat(e)
                /\ RLe(vwap, Norm(RowPriceTotal(s, e), e))
                /\ score # NaN
                /\ RLe(Zero, score)
                /\ score = Zero <=>
                      \A d \in 0..(e - 1) : prices[s][d] = prices[s][0]

\* a reported run in which Fixed-Schedule scored above zero on row 0, whose
\* traded prices differ, and exactly zero on row 1, whose traded prices are equal
C30_Witness ==
    /\ pc = "reported"
    /\ target_duration = 2
    /\ num_days >= 2
    /\ prices[0][0] # prices[0][1]
    /\ prices[1][0] = prices[1][1]
    /\ RLt(Zero, metrics["strategy_1"].performance_bps[0])
    /\ metrics["strategy_1"].performance_bps[1] = Zero

====
